---- MODULE Spec2Model ----
(***************************************************************************)
(* A model of the Zoom transcript/chat pipeline of HackDook:                *)
(* backend/models/zoom_parser.py (the canonical variant) and the write_csv  *)
(* of backend/models/parse_zoom_data.py.                                    *)
(*                                                                          *)
(* Text is a sequence of one-character strings, so that split, strip, int   *)
(* and the regular expressions of the code are computed, not assumed.       *)
(* A Python value that may be None is a sequence of length at most one:     *)
(* <<>> is None and <<v>> is the value v.  A time in seconds (a float in    *)
(* the code) is kept as an integer number of milliseconds.                  *)
(***************************************************************************)
EXTENDS Integers, Sequences, FiniteSets, TLC

VARIABLES
  variant,            \* which module's process_zoom_data/write_csv runs
  vtt_input,          \* the caption document (text)
  chat_input,         \* the chat log (text)
  ngrams_input,       \* None or the rule table (text)
  lesson_plan_input,  \* None or the reference document (text)
  pc,                 \* position of the run
  blocks,             \* parse_vtt: the blocks still to be read
  transcript,         \* parse_vtt: the entries appended so far
  chat_lines,         \* parse_chat_log: the lines still to be read
  chat_entries,       \* parse_chat_log: the entries appended so far
  combined,           \* the merged timeline
  ngrams_list,        \* None or the list of rules
  lesson_embedding,   \* None or the reference embedding
  semantic_model,     \* None or the embedding model
  todo,               \* write_csv: the entries not yet turned into rows
  rows,               \* write_csv: the rows prepared (zoom_parser.py)
  output,             \* the output file: None (never opened) or its records
  error,              \* None or the exception that ended the run
  calls               \* the calls made to the embedding service, in order

vars == <<variant, vtt_input, chat_input, ngrams_input, lesson_plan_input, pc,
          blocks, transcript, chat_lines, chat_entries, combined, ngrams_list,
          lesson_embedding, semantic_model, todo, rows, output, error, calls>>

None == <<>>
Some(v) == <<v>>

(***************************************************************************)
(* Python's str and re operations, on sequences of characters.              *)
(***************************************************************************)
NL == "\n"
TAB == "\t"
SP == " "

Whitespace == {SP, TAB, NL}
Digits == {"0", "1", "2", "3", "4", "5", "6", "7", "8", "9"}
Upper == {"A", "B", "S"}
\* the characters of the class \w that the inputs of this model use
WordChars == Digits \cup Upper \cup {"a", "b", "e", "g", "r", "s", "_"}

DigitValue(c) ==
  CASE c = "0" -> 0 [] c = "1" -> 1 [] c = "2" -> 2 [] c = "3" -> 3
    [] c = "4" -> 4 [] c = "5" -> 5 [] c = "6" -> 6 [] c = "7" -> 7
    [] c = "8" -> 8 [] c = "9" -> 9

Drop(s, n) == SubSeq(s, n + 1, Len(s))
Take(s, n) == SubSeq(s, 1, n)

StartsWith(s, p) == Len(p) <= Len(s) /\ Take(s, Len(p)) = p
EndsWith(s, p) == Len(p) <= Len(s) /\ Drop(s, Len(s) - Len(p)) = p

RECURSIVE LStrip(_)
LStrip(s) == IF s # <<>> /\ Head(s) \in Whitespace THEN LStrip(Tail(s)) ELSE s

RECURSIVE RStrip(_)
RStrip(s) ==
  IF s # <<>> /\ s[Len(s)] \in Whitespace THEN RStrip(Take(s, Len(s) - 1)) ELSE s

\* str.strip()
Strip(s) == RStrip(LStrip(s))

\* sep in s
RECURSIVE Contains(_, _)
Contains(s, sep) ==
  IF StartsWith(s, sep) THEN TRUE
  ELSE IF s = <<>> THEN FALSE
  ELSE Contains(Tail(s), sep)

\* str.split(sep): every occurrence of sep, left to right, cuts the text
RECURSIVE SplitFrom(_, _, _)
SplitFrom(s, sep, cur) ==
  IF s = <<>> THEN <<cur>>
  ELSE IF StartsWith(s, sep) THEN <<cur>> \o SplitFrom(Drop(s, Len(sep)), sep, <<>>)
  ELSE SplitFrom(Tail(s), sep, Append(cur, Head(s)))

Split(s, sep) == SplitFrom(s, sep, <<>>)

\* str.split(sep, 1): at most one cut, at the first occurrence of sep
RECURSIVE SplitOnceFrom(_, _, _)
SplitOnceFrom(s, sep, cur) ==
  IF s = <<>> THEN <<cur>>
  ELSE IF StartsWith(s, sep) THEN <<cur, Drop(s, Len(sep))>>
  ELSE SplitOnceFrom(Tail(s), sep, Append(cur, Head(s)))

SplitOnce(s, sep) == SplitOnceFrom(s, sep, <<>>)

\* str.splitlines(): lines end at a newline; no empty last line
SplitLines(s) ==
  LET parts == Split(s, <<NL>>)
  IN IF parts[Len(parts)] = <<>> THEN Take(parts, Len(parts) - 1) ELSE parts

\* sep.join(parts)
RECURSIVE Join(_, _)
Join(sep, parts) ==
  IF parts = <<>> THEN <<>>
  ELSE IF Len(parts) = 1 THEN parts[1]
  ELSE parts[1] \o sep \o Join(sep, Tail(parts))

\* re.match(r"^\d+$", s) on a stripped line
AllDigits(s) == s # <<>> /\ \A i \in 1..Len(s) : s[i] \in Digits

RECURSIVE DecimalValue(_)
DecimalValue(s) ==
  IF s = <<>> THEN 0 ELSE 10 * DecimalValue(Take(s, Len(s) - 1)) + DigitValue(s[Len(s)])

\* int(s): surrounding whitespace and one sign are accepted; anything else
\* that is not a run of digits raises ValueError (None here).  The inputs
\* of this model have no "_" between digits, which int would accept too.
ParseInt(s) ==
  LET t == Strip(s)
      signed == t # <<>> /\ Head(t) \in {"-", "+"}
      body == IF signed THEN Tail(t) ELSE t
  IN IF ~AllDigits(body) THEN None
     ELSE IF signed /\ Head(t) = "-" THEN Some(0 - DecimalValue(body))
     ELSE Some(DecimalValue(body))

(***************************************************************************)
(* The result of a call: a value, or the exception it raised.               *)
(***************************************************************************)
Ok(v) == [ok |-> TRUE, val |-> v]
Raise(e) == [ok |-> FALSE, exc |-> e]

\* a codec that drops the fraction of the seconds
timestamp_to_seconds_whole(timestamp_str) ==
  LET parts == Split(timestamp_str, <<":">>)
  IN IF Len(parts) # 3 THEN Raise("ValueError")
     ELSE
       LET hours == ParseInt(parts[1])
           minutes == ParseInt(parts[2])
           seconds == ParseInt(Split(parts[3], <<".">>)[1])
       IN IF None \in {hours, minutes, seconds} THEN Raise("ValueError")
          ELSE Ok(hours[1] * 3600000 + minutes[1] * 60000 + seconds[1] * 1000)

\* a codec that reads the last three components of a longer text and takes
\* the components a shorter text lacks as zero
timestamp_to_seconds_lenient(timestamp_str) ==
  LET given == Split(timestamp_str, <<":">>)
      padded == <<<<"0">>, <<"0">>>> \o given
      parts == Drop(padded, Len(padded) - 3)
      hours == ParseInt(parts[1])
      minutes == ParseInt(parts[2])
      sec_parts == Split(parts[3], <<".">>)
      seconds == ParseInt(sec_parts[1])
      milliseconds == IF Len(sec_parts) = 2 THEN ParseInt(sec_parts[2]) ELSE Some(0)
  IN IF None \in {hours, minutes, seconds, milliseconds} THEN Raise("ValueError")
     ELSE Ok(hours[1] * 3600000 + minutes[1] * 60000 + seconds[1] * 1000
             + milliseconds[1])

(***************************************************************************)
(* timestamp_to_seconds, in milliseconds.                                   *)
(***************************************************************************)
timestamp_to_seconds(timestamp_str) ==
  LET parts == Split(timestamp_str, <<":">>)
  IN IF Len(parts) # 3 THEN Raise("ValueError")
     ELSE
       LET hours == ParseInt(parts[1])
           minutes == ParseInt(parts[2])
           sec_parts == Split(parts[3], <<".">>)
           seconds == ParseInt(sec_parts[1])
           milliseconds == IF Len(sec_parts) = 2 THEN ParseInt(sec_parts[2]) ELSE Some(0)
       IN IF None \in {hours, minutes, seconds, milliseconds} THEN Raise("ValueError")
          ELSE Ok(hours[1] * 3600000 + minutes[1] * 60000 + seconds[1] * 1000
                  + milliseconds[1])

(***************************************************************************)
(* parse_vtt                                                                *)
(***************************************************************************)
WEBVTT == <<"W", "E", "B", "V", "T", "T">>
ARROW == <<"-", "-", ">">>

\* lines 75-78: the blocks of the document, the header block removed
vtt_blocks(content) ==
  LET bs == Split(Strip(content), <<NL, NL>>)
  IN IF StartsWith(Strip(bs[1]), WEBVTT) THEN Tail(bs) ELSE bs

\* a block parser that never looks for an index line: the first line of a
\* block is its range line
vtt_block_unindexed(block) ==
  LET lines == SplitLines(Strip(block))
  IN IF lines = <<>> THEN Ok(None)
     ELSE
       LET timestamp_parts == Split(Strip(lines[1]), ARROW)
           two == Len(timestamp_parts) = 2
           start == IF two THEN Some(Strip(timestamp_parts[1])) ELSE None
           end == IF two THEN Some(Strip(timestamp_parts[2])) ELSE None
           text == Strip(Join(<<SP>>, Drop(lines, 1)))
           colon == Contains(text, <<":">>)
           cut == SplitOnce(text, <<":">>)
           truthy == start # None /\ start[1] # <<>>
           time == IF truthy THEN timestamp_to_seconds(start[1]) ELSE Ok(0)
       IN IF ~time.ok THEN time
          ELSE Ok(Some([type |-> "transcript",
                        block_index |-> <<>>,
                        timestamp |-> start,
                        time |-> IF truthy THEN Some(time.val) ELSE None,
                        end |-> end,
                        speaker |-> IF colon THEN Strip(cut[1]) ELSE <<>>,
                        text |-> IF colon THEN Strip(cut[2]) ELSE text]))

\* lines 81-112, one iteration of the loop: Ok(None) when the block is
\* skipped, Ok(Some(entry)) when an entry is appended, or the exception
vtt_block(block) ==
  LET lines == SplitLines(Strip(block))
  IN IF lines = <<>> THEN Ok(None)
     ELSE
       LET indexed == AllDigits(Strip(lines[1]))
           block_index == IF indexed THEN Strip(lines[1]) ELSE <<>>
           timestamp_line ==
             IF indexed THEN (IF Len(lines) > 1 THEN Strip(lines[2]) ELSE <<>>)
             ELSE Strip(lines[1])
           text_lines == IF indexed THEN Drop(lines, 2) ELSE Drop(lines, 1)
           timestamp_parts == Split(timestamp_line, ARROW)
           two == Len(timestamp_parts) = 2
           start == IF two THEN Some(Strip(timestamp_parts[1])) ELSE None
           end == IF two THEN Some(Strip(timestamp_parts[2])) ELSE None
           text == Strip(Join(<<SP>>, text_lines))
           colon == Contains(text, <<":">>)
           cut == SplitOnce(text, <<":">>)
           speaker == IF colon THEN Strip(cut[1]) ELSE <<>>
           message == IF colon THEN Strip(cut[2]) ELSE text
           \* "if start": start is neither None nor the empty text
           truthy == start # None /\ start[1] # <<>>
           time == IF truthy THEN timestamp_to_seconds(start[1]) ELSE Ok(0)
       IN IF ~time.ok THEN time
          ELSE Ok(Some([type |-> "transcript",
                        block_index |-> block_index,
                        timestamp |-> start,
                        time |-> IF truthy THEN Some(time.val) ELSE None,
                        end |-> end,
                        speaker |-> speaker,
                        text |-> message]))

(***************************************************************************)
(* parse_chat_log                                                           *)
(***************************************************************************)
\* lines 126-143, one iteration of the loop
chat_line(raw) ==
  LET line == Strip(raw)
      parts == Split(line, <<TAB>>)
  IN IF line = <<>> THEN Ok(None)
     ELSE IF Len(parts) < 3 THEN Ok(None)
     ELSE
       LET timestamp == Strip(parts[1])
           speaker0 == Strip(parts[2])
           speaker == IF EndsWith(speaker0, <<":">>)
                      THEN Strip(Take(speaker0, Len(speaker0) - 1)) ELSE speaker0
           message == Strip(parts[3])
           time == timestamp_to_seconds(timestamp)
       IN IF ~time.ok THEN time
          ELSE Ok(Some([type |-> "chat",
                        timestamp |-> Some(timestamp),
                        time |-> Some(time.val),
                        speaker |-> speaker,
                        message |-> message]))

(***************************************************************************)
(* combine_data                                                             *)
(***************************************************************************)
\* the sort key, x.get("time", 0): the default applies only to a missing key
sort_key(x) == IF "time" \in DOMAIN x THEN x.time ELSE Some(0)

\* a sort that places an element before the elements of equal key
InsertByKeyUnstable(sorted, x) ==
  LET n == Cardinality({i \in 1..Len(sorted) : sort_key(sorted[i])[1] < sort_key(x)[1]})
  IN SubSeq(sorted, 1, n) \o <<x>> \o SubSeq(sorted, n + 1, Len(sorted))

\* list.sort places an element after every element whose key is not greater
InsertByKey(sorted, x) ==
  LET n == Cardinality({i \in 1..Len(sorted) : sort_key(sorted[i])[1] <= sort_key(x)[1]})
  IN Take(sorted, n) \o <<x>> \o Drop(sorted, n)

RECURSIVE SortByKey(_)
SortByKey(s) ==
  IF s = <<>> THEN <<>>
  ELSE InsertByKey(SortByKey(Take(s, Len(s) - 1)), s[Len(s)])

\* a merge that concatenates and does not sort
combine_data_unsorted(t, c) == [ok |-> TRUE, val |-> t \o c]

\* list.sort of two or more elements compares every element with another
\* one; "<" between None and a number, or None and None, raises TypeError
combine_data(t, c) ==
  LET both == t \o c
  IN IF Len(both) >= 2 /\ \E i \in 1..Len(both) : sort_key(both[i]) = None
     THEN Raise("TypeError")
     ELSE Ok(SortByKey(both))

(***************************************************************************)
(* stem_text                                                                *)
(***************************************************************************)
\* str.lower()
Lower(c) == CASE c = "A" -> "a" [] c = "B" -> "b" [] c = "S" -> "s" [] OTHER -> c

LowerText(s) == [i \in 1..Len(s) |-> Lower(s[i])]

\* re.findall(r'\w+', s): the maximal runs of word characters
RECURSIVE FindWordsFrom(_, _)
FindWordsFrom(s, cur) ==
  IF s = <<>> THEN (IF cur = <<>> THEN <<>> ELSE <<cur>>)
  ELSE IF Head(s) \in WordChars THEN FindWordsFrom(Tail(s), Append(cur, Head(s)))
  ELSE (IF cur = <<>> THEN <<>> ELSE <<cur>>) \o FindWordsFrom(Tail(s), <<>>)

FindWords(s) == FindWordsFrom(s, <<>>)

\* PorterStemmer of nltk.  Every character but a, e, i, o, u is a consonant
\* ("y" is not among the word characters of this model).
Vowels == {"a", "e", "i", "o", "u"}

\* the measure of a stem: the number of vowel-consonant sequences in it
Measure(w) == Cardinality({i \in 1..(Len(w) - 1) : w[i] \in Vowels /\ w[i + 1] \notin Vowels})

\* the stem ends consonant-vowel-consonant, the last not w, x or y; a stem
\* of two characters, vowel-consonant, counts as such an end too
EndsCvc(w) ==
  \/ /\ Len(w) >= 3
     /\ w[Len(w) - 2] \notin Vowels
     /\ w[Len(w) - 1] \in Vowels
     /\ w[Len(w)] \notin Vowels \cup {"w", "x", "y"}
  \/ /\ Len(w) = 2
     /\ w[1] \in Vowels
     /\ w[2] \notin Vowels

\* step 1a: "sses" -> "ss", "ss" -> "ss", "s" -> "" (the rule for "ies"
\* needs an "i")
step1a(w) ==
  IF EndsWith(w, <<"s", "s", "e", "s">>) THEN Take(w, Len(w) - 2)
  ELSE IF EndsWith(w, <<"s", "s">>) THEN w
  ELSE IF EndsWith(w, <<"s">>) THEN Take(w, Len(w) - 1)
  ELSE w

\* step 4: of its suffixes only "er" is written with the letters of this
\* model; it is removed from a stem of measure greater than 1
step4(w) ==
  IF EndsWith(w, <<"e", "r">>) /\ Measure(Take(w, Len(w) - 2)) > 1
  THEN Take(w, Len(w) - 2) ELSE w

\* step 5a: a final "e" is removed from a stem of measure greater than 1,
\* and from a stem of measure 1 that does not end consonant-vowel-consonant
step5a(w) ==
  IF ~EndsWith(w, <<"e">>) THEN w
  ELSE LET stem0 == Take(w, Len(w) - 1)
       IN IF Measure(stem0) > 1 THEN stem0
          ELSE IF Measure(stem0) = 1 /\ ~EndsCvc(stem0) THEN stem0
          ELSE w

\* PorterStemmer.stem: words of one or two characters are returned as they
\* are.  Of Porter's steps, 1b, 1c, 2, 3 and 5b and the list of irregular
\* forms need a letter that the words of this model (over a, b, e, g, r, s,
\* digits and "_") do not have.
stem(word) ==
  IF Len(word) <= 2 THEN word ELSE step5a(step4(step1a(word)))

stem_text(text) ==
  LET words == FindWords(LowerText(text))
  IN Join(<<SP>>, [i \in 1..Len(words) |-> stem(words[i])])

(***************************************************************************)
(* load_ngrams and categorize_message                                       *)
(***************************************************************************)
\* csv.reader on one line: an empty line is the empty row, and the fields
\* of any other line are cut at the commas (the tables here quote nothing)
csv_row(line) == IF line = <<>> THEN <<>> ELSE Split(line, <<",">>)

\* a loader that reads phrase, type and category from the first three
\* columns and so accepts a row of three columns
ngram_of_row_from_first(row) ==
  IF Len(row) < 3 THEN None
  ELSE Some([phrase |-> row[1],
             ngram_type |-> row[2],
             category |-> row[3],
             stemmed_phrase |-> stem_text(row[1]),
             pattern |-> stem_text(row[1])])

\* lines 181-192, one row: None when the row is skipped
ngram_of_row(row) ==
  IF Len(row) < 4 THEN None
  ELSE Some([phrase |-> row[2],
             ngram_type |-> row[3],
             category |-> row[4],
             stemmed_phrase |-> stem_text(row[2]),
             pattern |-> stem_text(row[2])])

RECURSIVE ngrams_of_lines(_)
ngrams_of_lines(lines) ==
  IF lines = <<>> THEN <<>>
  ELSE ngram_of_row(csv_row(Head(lines))) \o ngrams_of_lines(Tail(lines))

load_ngrams(content) == ngrams_of_lines(SplitLines(content))

\* \b at position k of text (between text[k] and text[k+1])
WordBoundary(text, k) ==
  (k >= 1 /\ text[k] \in WordChars) # (k < Len(text) /\ text[k + 1] \in WordChars)

\* a matcher without the word boundaries: the phrase anywhere in the text
pattern_search_substring(p, text) ==
  \E k \in 0..(Len(text) - Len(p)) : SubSeq(text, k + 1, k + Len(p)) = p

\* re.compile(r'\b' + re.escape(p) + r'\b').search(text)
pattern_search(p, text) ==
  \E k \in 0..(Len(text) - Len(p)) :
     /\ SubSeq(text, k + 1, k + Len(p)) = p
     /\ WordBoundary(text, k)
     /\ WordBoundary(text, k + Len(p))

\* a matcher that counts every occurrence of the phrase
rule_hits_per_occurrence(ngram, message_stemmed) ==
  Cardinality({k \in 0..(Len(message_stemmed) - Len(ngram.pattern)) :
                 /\ SubSeq(message_stemmed, k + 1, k + Len(ngram.pattern)) = ngram.pattern
                 /\ WordBoundary(message_stemmed, k)
                 /\ WordBoundary(message_stemmed, k + Len(ngram.pattern))})

\* lines 207-209: what one rule adds to the count of its category
rule_hits(ngram, message_stemmed) ==
  IF pattern_search(ngram.pattern, message_stemmed) THEN 1 ELSE 0

\* lines 205-209: counts, a dict in insertion order, as a list of
\* <<category, count>> pairs
RECURSIVE count_matches(_, _, _)
count_matches(message_stemmed, ngrams, counts) ==
  IF ngrams = <<>> THEN counts
  ELSE
    LET ngram == Head(ngrams)
        cat == ngram.category
        n == rule_hits(ngram, message_stemmed)
        seen == {i \in 1..Len(counts) : counts[i][1] = cat}
        counts1 ==
          IF n = 0 THEN counts
          ELSE IF seen = {} THEN Append(counts, <<cat, n>>)
          ELSE [i \in 1..Len(counts) |->
                  IF i \in seen THEN <<cat, counts[i][2] + n>> ELSE counts[i]]
    IN count_matches(message_stemmed, Tail(ngrams), counts1)

UNCATEGORIZED ==
  <<"u", "n", "c", "a", "t", "e", "g", "o", "r", "i", "z", "e", "d">>

RECURSIVE MaxCount(_)
MaxCount(counts) ==
  IF Len(counts) = 1 THEN counts[1][2]
  ELSE LET m == MaxCount(Tail(counts))
       IN IF counts[1][2] >= m THEN counts[1][2] ELSE m

\* a selection that keeps every category that was hit
categories_hit(counts, n) == [i \in 1..Len(counts) |-> counts[i][1]]

RECURSIVE categories_with(_, _)
categories_with(counts, n) ==
  IF counts = <<>> THEN <<>>
  ELSE (IF counts[1][2] = n THEN <<counts[1][1]>> ELSE <<>>)
       \o categories_with(Tail(counts), n)

\* a categorizer whose counts are not reset between calls: the hits of the
\* utterance annotated before are still in the counts
categorize_message_shared_counts(message, ngrams) ==
  LET carried == IF rows = <<>> THEN <<>>
                 ELSE count_matches(stem_text(rows[Len(rows)].message), ngrams, <<>>)
      counts == count_matches(stem_text(message), ngrams, carried)
  IN IF counts = <<>> THEN UNCATEGORIZED
     ELSE Join(<<",", SP>>, categories_with(counts, MaxCount(counts)))

categorize_message(message, ngrams) ==
  LET counts == count_matches(stem_text(message), ngrams, <<>>)
  IN IF counts = <<>> THEN UNCATEGORIZED
     ELSE Join(<<",", SP>>, categories_with(counts, MaxCount(counts)))

(***************************************************************************)
(* write_csv                                                                *)
(***************************************************************************)
\* dict.get(key, default)
Get(d, key, default) == IF key \in DOMAIN d THEN d[key] ELSE default

EmptyText == <<>>

\* a header that tests the rule list for truth, not for None
fieldnames_if_truthy(ngrams, embedding, model) ==
  <<"type", "block_index", "timestamp", "time", "end", "speaker", "message",
    "stemmed_message">>
  \o (IF ngrams # None /\ ngrams[1] # <<>> THEN <<"assigned_category">> ELSE <<>>)
  \o (IF embedding # None /\ model # None THEN <<"lesson_relevancy">> ELSE <<>>)

\* lines 236-240
fieldnames(ngrams, embedding, model) ==
  <<"type", "block_index", "timestamp", "time", "end", "speaker", "message",
    "stemmed_message">>
  \o (IF ngrams # None THEN <<"assigned_category">> ELSE <<>>)
  \o (IF embedding # None /\ model # None THEN <<"lesson_relevancy">> ELSE <<>>)

\* line 245
message_of(entry) ==
  IF Get(entry, "type", "") = "transcript" THEN Get(entry, "text", EmptyText)
  ELSE Get(entry, "message", EmptyText)

\* compute_semantic_similarity, a value of the embedding service
similarity_of(message, embedding) == [cos_sim |-> <<message, embedding>>]

\* lines 245-260: the row of one entry
row_of(entry, ngrams, embedding, model) ==
  LET message == message_of(entry)
      base == [type |-> Get(entry, "type", ""),
               block_index |-> Get(entry, "block_index", EmptyText),
               timestamp |-> Get(entry, "timestamp", Some(EmptyText)),
               time |-> Get(entry, "time", Some(EmptyText)),
               end |-> Get(entry, "end", Some(EmptyText)),
               speaker |-> Get(entry, "speaker", EmptyText),
               message |-> message,
               stemmed_message |-> stem_text(message)]
      cat == IF ngrams # None
             THEN "assigned_category" :> categorize_message(message, ngrams[1])
             ELSE <<>>
      rel == IF embedding # None /\ model # None
             THEN "lesson_relevancy" :> similarity_of(message, embedding[1])
             ELSE <<>>
  IN base @@ cat @@ rel

Range(s) == {s[i] : i \in 1..Len(s)}

\* csv.DictWriter.writerow: a key the header lacks raises ValueError; a
\* column the row lacks is filled with the empty restval (None here)
dict_to_list(header, row) ==
  IF ~(DOMAIN row \subseteq Range(header)) THEN Raise("ValueError")
  ELSE Ok([f \in Range(header) |-> IF f \in DOMAIN row THEN Some(row[f]) ELSE None])

(***************************************************************************)
(* The run: process_zoom_data, step by step.                                *)
(***************************************************************************)
\* an exception raised in the function fn ends the run
Fail(e, fn) ==
  /\ pc' = "failed"
  /\ error' = Some([exc |-> e, raised_in |-> fn])

\* parse_vtt, lines 75-79
ParseVttBegin ==
  /\ pc = "parse_vtt"
  /\ blocks' = vtt_blocks(vtt_input)
  /\ transcript' = <<>>
  /\ pc' = "vtt_loop"
  /\ UNCHANGED <<variant, vtt_input, chat_input, ngrams_input, lesson_plan_input,
                 chat_lines, chat_entries, combined, ngrams_list, lesson_embedding,
                 semantic_model, todo, rows, output, error, calls>>

\* parse_vtt, lines 80-112: one block
ParseVttBlock ==
  /\ pc = "vtt_loop"
  /\ blocks # <<>>
  /\ LET r == vtt_block(Head(blocks))
     IN IF r.ok
        THEN /\ transcript' = transcript \o r.val
             /\ blocks' = Tail(blocks)
             /\ UNCHANGED <<pc, error>>
        ELSE /\ Fail(r.exc, "parse_vtt")
             /\ UNCHANGED <<transcript, blocks>>
  /\ UNCHANGED <<variant, vtt_input, chat_input, ngrams_input, lesson_plan_input,
                 chat_lines, chat_entries, combined, ngrams_list, lesson_embedding,
                 semantic_model, todo, rows, output, calls>>

\* parse_vtt, line 113
ParseVttReturn ==
  /\ pc = "vtt_loop"
  /\ blocks = <<>>
  /\ pc' = "parse_chat_log"
  /\ UNCHANGED <<variant, vtt_input, chat_input, ngrams_input, lesson_plan_input,
                 blocks, transcript, chat_lines, chat_entries, combined, ngrams_list,
                 lesson_embedding, semantic_model, todo, rows, output, error, calls>>

\* parse_chat_log, lines 123-125
ParseChatBegin ==
  /\ pc = "parse_chat_log"
  /\ chat_lines' = SplitLines(chat_input)
  /\ chat_entries' = <<>>
  /\ pc' = "chat_loop"
  /\ UNCHANGED <<variant, vtt_input, chat_input, ngrams_input, lesson_plan_input,
                 blocks, transcript, combined, ngrams_list, lesson_embedding,
                 semantic_model, todo, rows, output, error, calls>>

\* parse_chat_log, lines 125-143: one line
ParseChatLine ==
  /\ pc = "chat_loop"
  /\ chat_lines # <<>>
  /\ LET r == chat_line(Head(chat_lines))
     IN IF r.ok
        THEN /\ chat_entries' = chat_entries \o r.val
             /\ chat_lines' = Tail(chat_lines)
             /\ UNCHANGED <<pc, error>>
        ELSE /\ Fail(r.exc, "parse_chat_log")
             /\ UNCHANGED <<chat_entries, chat_lines>>
  /\ UNCHANGED <<variant, vtt_input, chat_input, ngrams_input, lesson_plan_input,
                 blocks, transcript, combined, ngrams_list, lesson_embedding,
                 semantic_model, todo, rows, output, calls>>

\* parse_chat_log, line 144
ParseChatReturn ==
  /\ pc = "chat_loop"
  /\ chat_lines = <<>>
  /\ pc' = "combine_data"
  /\ UNCHANGED <<variant, vtt_input, chat_input, ngrams_input, lesson_plan_input,
                 blocks, transcript, chat_lines, chat_entries, combined, ngrams_list,
                 lesson_embedding, semantic_model, todo, rows, output, error, calls>>

\* process_zoom_data, line 289
CombineData ==
  /\ pc = "combine_data"
  /\ LET r == combine_data(transcript, chat_entries)
     IN IF r.ok
        THEN /\ combined' = r.val
             /\ pc' = "load_ngrams"
             /\ UNCHANGED error
        ELSE /\ Fail(r.exc, "combine_data")
             /\ UNCHANGED combined
  /\ UNCHANGED <<variant, vtt_input, chat_input, ngrams_input, lesson_plan_input,
                 blocks, transcript, chat_lines, chat_entries, ngrams_list,
                 lesson_embedding, semantic_model, todo, rows, output, calls>>

\* process_zoom_data, line 290
LoadNgrams ==
  /\ pc = "load_ngrams"
  /\ ngrams_list' = IF ngrams_input # None THEN Some(load_ngrams(ngrams_input[1]))
                    ELSE None
  /\ pc' = "lesson"
  /\ UNCHANGED <<variant, vtt_input, chat_input, ngrams_input, lesson_plan_input,
                 blocks, transcript, chat_lines, chat_entries, combined,
                 lesson_embedding, semantic_model, todo, rows, output, error, calls>>

\* process_zoom_data, lines 291-296; the embedding service returns or raises
EncodeLesson ==
  /\ pc = "lesson"
  /\ IF lesson_plan_input = None
     THEN /\ pc' = "write_csv"
          /\ UNCHANGED <<lesson_embedding, semantic_model, error, calls>>
     ELSE /\ calls' = Append(calls, [fn |-> "encode", of |-> "lesson", entry |-> 0])
          /\ \E raises \in BOOLEAN :
               IF raises
               THEN /\ Fail("CollaboratorFailure", "process_zoom_data")
                    /\ semantic_model' = Some("all-MiniLM-L6-v2")
                    /\ UNCHANGED lesson_embedding
               ELSE /\ semantic_model' = Some("all-MiniLM-L6-v2")
                    /\ lesson_embedding' = Some([embedding_of |-> lesson_plan_input[1]])
                    /\ pc' = "write_csv"
                    /\ UNCHANGED error
  /\ UNCHANGED <<variant, vtt_input, chat_input, ngrams_input, lesson_plan_input,
                 blocks, transcript, chat_lines, chat_entries, combined, ngrams_list,
                 todo, rows, output>>

\* a scorer that embeds the reference document again for every entry
scoring_calls_with_reference(k, raises) ==
  <<[fn |-> "encode", of |-> "lesson", entry |-> 0],
    [fn |-> "encode", of |-> "message", entry |-> k]>>
  \o (IF raises THEN <<>> ELSE <<[fn |-> "cos_sim", of |-> "message", entry |-> k]>>)

\* compute_semantic_similarity, lines 223-224: the calls made for entry k;
\* when the embedding raises, the similarity is not computed
scoring_calls(k, raises) ==
  <<[fn |-> "encode", of |-> "message", entry |-> k]>>
  \o (IF raises THEN <<>> ELSE <<[fn |-> "cos_sim", of |-> "message", entry |-> k]>>)

\* the rows csv.DictWriter.writerows emits before one of them raises
RECURSIVE written_rows(_, _)
written_rows(header, rs) ==
  IF rs = <<>> THEN <<>>
  ELSE LET w == dict_to_list(header, Head(rs))
       IN IF w.ok THEN <<w.val>> \o written_rows(header, Tail(rs)) ELSE <<>>

\* write_csv of zoom_parser.py, lines 236-243: nothing is opened yet
WriteCsvBegin ==
  /\ pc = "write_csv"
  /\ variant = "zoom_parser"
  /\ todo' = combined
  /\ rows' = <<>>
  /\ pc' = "csv_loop"
  /\ UNCHANGED <<variant, vtt_input, chat_input, ngrams_input, lesson_plan_input,
                 blocks, transcript, chat_lines, chat_entries, combined, ngrams_list,
                 lesson_embedding, semantic_model, output, error, calls>>

\* write_csv of zoom_parser.py, lines 244-261: the row of one entry is
\* appended to rows; the embedding service returns or raises
WriteCsvEntry ==
  /\ pc = "csv_loop"
  /\ variant = "zoom_parser"
  /\ todo # <<>>
  /\ LET k == Len(combined) - Len(todo) + 1
         scoring == lesson_embedding # None /\ semantic_model # None
     IN \E raises \in (IF scoring THEN BOOLEAN ELSE {FALSE}) :
          /\ calls' = IF scoring THEN calls \o scoring_calls(k, raises) ELSE calls
          /\ IF raises
             THEN /\ Fail("CollaboratorFailure", "write_csv")
                  /\ UNCHANGED <<todo, rows>>
             ELSE /\ rows' = Append(rows, row_of(Head(todo), ngrams_list,
                                                 lesson_embedding, semantic_model))
                  /\ todo' = Tail(todo)
                  /\ UNCHANGED <<pc, error>>
  /\ UNCHANGED <<variant, vtt_input, chat_input, ngrams_input, lesson_plan_input,
                 blocks, transcript, chat_lines, chat_entries, combined, ngrams_list,
                 lesson_embedding, semantic_model, output>>

\* write_csv of zoom_parser.py, lines 263-271: the header and the rows are
\* written, and process_zoom_data returns
WriteCsvEnd ==
  /\ pc = "csv_loop"
  /\ variant = "zoom_parser"
  /\ todo = <<>>
  /\ LET header == fieldnames(ngrams_list, lesson_embedding, semantic_model)
         written == written_rows(header, rows)
     IN /\ output' = Some([header |-> header, rows |-> written])
        /\ IF Len(written) = Len(rows)
           THEN pc' = "done" /\ UNCHANGED error
           ELSE Fail("ValueError", "write_csv")
  /\ UNCHANGED <<variant, vtt_input, chat_input, ngrams_input, lesson_plan_input,
                 blocks, transcript, chat_lines, chat_entries, combined, ngrams_list,
                 lesson_embedding, semantic_model, todo, rows, calls>>

\* write_csv of parse_zoom_data.py, lines 279-288: the file is opened and
\* the header written before the first entry is read
StreamCsvBegin ==
  /\ pc = "write_csv"
  /\ variant = "parse_zoom_data"
  /\ todo' = combined
  /\ output' = Some([header |-> fieldnames(ngrams_list, lesson_embedding, semantic_model),
                     rows |-> <<>>])
  /\ pc' = "csv_loop"
  /\ UNCHANGED <<variant, vtt_input, chat_input, ngrams_input, lesson_plan_input,
                 blocks, transcript, chat_lines, chat_entries, combined, ngrams_list,
                 lesson_embedding, semantic_model, rows, error, calls>>

\* write_csv of parse_zoom_data.py, lines 289-307: the row of one entry is
\* written at once; an exception closes the file with what it holds
StreamCsvEntry ==
  /\ pc = "csv_loop"
  /\ variant = "parse_zoom_data"
  /\ todo # <<>>
  /\ LET k == Len(combined) - Len(todo) + 1
         scoring == lesson_embedding # None /\ semantic_model # None
         w == dict_to_list(output[1].header,
                           row_of(Head(todo), ngrams_list, lesson_embedding,
                                  semantic_model))
     IN \E raises \in (IF scoring THEN BOOLEAN ELSE {FALSE}) :
          /\ calls' = IF scoring THEN calls \o scoring_calls(k, raises) ELSE calls
          /\ IF raises
             THEN /\ Fail("CollaboratorFailure", "write_csv")
                  /\ UNCHANGED <<todo, output>>
             ELSE IF w.ok
             THEN /\ output' = Some([output[1] EXCEPT !.rows = Append(@, w.val)])
                  /\ todo' = Tail(todo)
                  /\ UNCHANGED <<pc, error>>
             ELSE /\ Fail(w.exc, "write_csv")
                  /\ UNCHANGED <<todo, output>>
  /\ UNCHANGED <<variant, vtt_input, chat_input, ngrams_input, lesson_plan_input,
                 blocks, transcript, chat_lines, chat_entries, combined, ngrams_list,
                 lesson_embedding, semantic_model, rows>>

\* write_csv of parse_zoom_data.py, after line 307: the file is closed, and
\* process_zoom_data returns
StreamCsvEnd ==
  /\ pc = "csv_loop"
  /\ variant = "parse_zoom_data"
  /\ todo = <<>>
  /\ pc' = "done"
  /\ UNCHANGED <<variant, vtt_input, chat_input, ngrams_input, lesson_plan_input,
                 blocks, transcript, chat_lines, chat_entries, combined, ngrams_list,
                 lesson_embedding, semantic_model, todo, rows, output, error, calls>>

\* process_zoom_data of zoom_parser.py
NextZoomParser ==
  \/ ParseVttBegin
  \/ ParseVttBlock
  \/ ParseVttReturn
  \/ ParseChatBegin
  \/ ParseChatLine
  \/ ParseChatReturn
  \/ CombineData
  \/ LoadNgrams
  \/ EncodeLesson
  \/ WriteCsvBegin
  \/ WriteCsvEntry
  \/ WriteCsvEnd

\* process_zoom_data of zoom_parser.py or of parse_zoom_data.py
Next ==
  \/ NextZoomParser
  \/ StreamCsvBegin
  \/ StreamCsvEntry
  \/ StreamCsvEnd

(***************************************************************************)
(* The inputs.                                                              *)
(***************************************************************************)
SeqsUpTo(S, n) == UNION {[1..k -> S] : k \in 0..n}

T2 == <<"0", ":", "0", ":", "2">>
T3 == <<"0", ":", "0", ":", "3">>
T5 == <<"0", ":", "0", ":", "5">>
T5h == <<"0", "0", ":", "0", "0", ":", "0", "5", ".", "5", "0", "0">>
T6 == <<"0", ":", "0", ":", "6">>
TwoParts == <<"0", ":", "2">>
NotANumber == <<"0", ":", "b", ":", "2">>

Range2(from, to) == from \o <<SP>> \o ARROW \o <<SP>> \o to

\* caption blocks: indexed, not indexed, without the arrow, with a start
\* that is no timestamp, with an empty start
BlkIndexed == <<"1", NL>> \o Range2(T5, T6) \o <<NL, "A", ":", SP, "a", "s">>
BlkPlain == Range2(T2, T3) \o <<NL, "b", "s", SP, "a">>
BlkPlain2 == Range2(T2, T3) \o <<NL, "S", ":", "b">>
BlkNoArrow == T2 \o <<SP>> \o T3 \o <<NL, "a", "b">>
BlkTwoParts == Range2(TwoParts, T3) \o <<NL, "a", "b">>
BlkNotANumber == <<"2", NL>> \o Range2(NotANumber, T3) \o <<NL, "a">>
BlkEmptyStart == ARROW \o <<SP>> \o T3 \o <<NL, "a">>
\* a block of an index line alone, and a block of no line at all
BlkIndexOnly == <<"7">>
BlkEmpty == <<>>

VttDoc(header, bs) ==
  (IF header THEN WEBVTT \o <<NL, NL>> ELSE <<>>) \o Join(<<NL, NL>>, bs) \o <<NL>>

Line(ts, speaker, message) == ts \o <<TAB>> \o speaker \o <<TAB>> \o message

\* chat lines: well formed, without the colon, with a timestamp that is no
\* timestamp, with too few fields, blank
LineB2 == Line(T2, <<"B", ":">>, <<"a", "s">>)
LineA5 == Line(T5h, <<"A">>, <<"b", "s", "!">>)
LineS2 == Line(T2, <<"S", ":">>, <<"a", SP, "a">>)
LineTwoParts == Line(TwoParts, <<"B", ":">>, <<"a", "b">>)
LineNotANumber == Line(NotANumber, <<"B", ":">>, <<"b">>)
LineShort == T2 \o <<TAB, "a", "b">>
LineBlank == <<SP>>

ChatDoc(ls) == Join(<<NL>>, ls)

\* rule tables: rows id,phrase,type,category
Row(phrase, category) == <<"1", ",">> \o phrase \o <<",", "u", ",">> \o category

CatX == <<"x">>
CatY == <<"y">>

RuleTable(rs) == Join(<<NL>>, rs)

LessonText == <<"a", "b">>

(***************************************************************************)
(* A run of process_zoom_data on inputs drawn from the given sets.          *)
(***************************************************************************)
InitRun(vtts, chats, tables, lessons, variants) ==
  /\ variant \in variants
  /\ vtt_input \in vtts
  /\ chat_input \in chats
  /\ ngrams_input \in tables
  /\ lesson_plan_input \in lessons
  /\ pc = "parse_vtt"
  /\ blocks = <<>>
  /\ transcript = <<>>
  /\ chat_lines = <<>>
  /\ chat_entries = <<>>
  /\ combined = <<>>
  /\ ngrams_list = None
  /\ lesson_embedding = None
  /\ semantic_model = None
  /\ todo = <<>>
  /\ rows = <<>>
  /\ output = None
  /\ error = None
  /\ calls = <<>>

MaxBlocks == 1
MaxLines == 2

Variants == {"zoom_parser", "parse_zoom_data"}

RunVtts == {VttDoc(TRUE, bs) : bs \in SeqsUpTo({BlkIndexed, BlkNoArrow}, MaxBlocks)}
RunChats == {ChatDoc(ls) : ls \in SeqsUpTo({LineB2, LineA5, LineTwoParts}, MaxLines)}
RunTables ==
  {None, Some(RuleTable(<<>>)),
   Some(RuleTable(<<Row(<<"a">>, CatX), Row(<<"b", "s">>, CatY)>>))}
RunLessons == {None, Some(LessonText)}

Init == InitRun(RunVtts, RunChats, RunTables, RunLessons, Variants)

Spec == Init /\ [][Next]_vars

(***************************************************************************)
(* The Timeline Merger: runs whose captions and chat lines are timed        *)
(* alike, apart, or not at all.                                             *)
(***************************************************************************)
MaxCaptions == 2
MaxChats == 2

MergeVtts ==
  {VttDoc(TRUE, bs) :
     bs \in SeqsUpTo({BlkIndexed, BlkPlain, BlkPlain2, BlkNoArrow}, MaxCaptions)}
MergeChats == {ChatDoc(ls) : ls \in SeqsUpTo({LineB2, LineA5, LineS2}, MaxChats)}

InitMerge == InitRun(MergeVtts, MergeChats, {None}, {None}, {"zoom_parser"})

SpecMerge == InitMerge /\ [][NextZoomParser]_vars

\* combine_data has returned
Merged == pc \in {"load_ngrams", "lesson", "write_csv", "csv_loop", "done"}

Concatenation == transcript \o chat_entries

AllTimed(s) == \A i \in 1..Len(s) : s[i].time # None

Occurrences(s, r) == Cardinality({i \in 1..Len(s) : s[i] = r})

WithTime(s, t) == SelectSeq(s, LAMBDA r : r.time = t)

\* C1: combine_data never fails because of an absent startSeconds, and a
\* record without startSeconds comes before every record whose startSeconds
\* is positive.
C1_AbsentTimeSortsAsZero ==
  /\ ~(pc = "failed" /\ error[1].raised_in = "combine_data")
  /\ Merged =>
       \A i, j \in 1..Len(combined) :
          (combined[i].time = None /\ combined[j].time # None /\ combined[j].time[1] > 0)
            => i < j

\* C2: when every record has a numeric startSeconds, the merged timeline is
\* a permutation of captions-then-chat and is non-decreasing in startSeconds.
C2_MergeIsSortedPermutation ==
  (Merged /\ AllTimed(Concatenation)) =>
    /\ Len(combined) = Len(Concatenation)
    /\ \A i \in 1..Len(Concatenation) :
         Occurrences(combined, Concatenation[i])
           = Occurrences(Concatenation, Concatenation[i])
    /\ \A i \in 1..(Len(combined) - 1) : combined[i].time[1] <= combined[i + 1].time[1]

\* a chat message at 2.0 has been merged ahead of a caption at 5.0
C2_Witness ==
  /\ Merged
  /\ AllTimed(Concatenation)
  /\ Len(combined) >= 2
  /\ combined # Concatenation
  /\ combined[1].type = "chat" /\ combined[1].time = Some(2000)
  /\ \E j \in 2..Len(combined) :
       combined[j].type = "transcript" /\ combined[j].time = Some(5000)

\* C3: the records of one startSeconds are in the merged timeline in the
\* order they have in captions-then-chat.
C3_MergeIsStable ==
  Merged =>
    \A i \in 1..Len(combined) :
       WithTime(combined, combined[i].time) = WithTime(Concatenation, combined[i].time)

\* a caption and a chat message of the same startSeconds are in the merged
\* timeline, the caption first, and the merge has moved some record
C3_Witness ==
  /\ Merged
  /\ Len(combined) >= 3
  /\ combined # Concatenation
  /\ \E i, j \in 1..Len(combined) :
       /\ i < j
       /\ combined[i].time = combined[j].time
       /\ combined[i].type = "transcript"
       /\ combined[j].type = "chat"

(***************************************************************************)
(* The Chat Parser: chat logs of well-formed lines, lines whose timestamp   *)
(* is no timestamp, lines with too few fields and blank lines.              *)
(***************************************************************************)
MaxChatLines == 3

ChatLogs ==
  {ChatDoc(ls) :
     ls \in SeqsUpTo({LineB2, LineA5, LineTwoParts, LineNotANumber, LineShort, LineBlank},
                     MaxChatLines)}

InitChat == InitRun({VttDoc(TRUE, <<BlkPlain>>)}, ChatLogs, {None}, {None}, {"zoom_parser"})

SpecChat == InitChat /\ [][NextZoomParser]_vars

RaisedIn(fn) == pc = "failed" /\ error[1].raised_in = fn

\* parse_chat_log has returned
ChatParsed == pc \notin {"parse_vtt", "vtt_loop", "parse_chat_log", "chat_loop"}
              /\ ~RaisedIn("parse_vtt") /\ ~RaisedIn("parse_chat_log")

\* the lines of three fields or more
HasThreeFields(raw) == Strip(raw) # <<>> /\ Len(Split(Strip(raw), <<TAB>>)) >= 3

TimestampField(raw) == Strip(Split(Strip(raw), <<TAB>>)[1])

WellTimedLines(content) ==
  SelectSeq(SplitLines(content),
            LAMBDA raw : HasThreeFields(raw) /\ timestamp_to_seconds(TimestampField(raw)).ok)

\* C4: a chat line of three fields whose timestamp is malformed is dropped
\* alone: parse_chat_log does not fail, and it returns one record for every
\* other line of three fields, in order.
C4_MalformedChatTimestampDropsLine ==
  /\ ~RaisedIn("parse_chat_log")
  /\ ChatParsed =>
       /\ Len(chat_entries) = Len(WellTimedLines(chat_input))
       /\ \A i \in 1..Len(chat_entries) :
            chat_entries[i].timestamp = Some(TimestampField(WellTimedLines(chat_input)[i]))

(***************************************************************************)
(* The Caption Parser: documents of blocks with and without an index line,  *)
(* without the arrow, and with a start that is no timestamp or is empty.    *)
(***************************************************************************)
MaxVttBlocks == 2

VttDocs ==
  {VttDoc(h, bs) :
     h \in BOOLEAN,
     bs \in SeqsUpTo({BlkIndexed, BlkPlain, BlkNoArrow, BlkTwoParts, BlkNotANumber,
                      BlkEmptyStart, BlkIndexOnly, BlkEmpty}, MaxVttBlocks)}

InitVtt == InitRun(VttDocs, {ChatDoc(<<LineB2>>)}, {None}, {None}, {"zoom_parser"})

SpecVtt == InitVtt /\ [][NextZoomParser]_vars

\* parse_vtt has returned
VttParsed == pc \notin {"parse_vtt", "vtt_loop"} /\ ~RaisedIn("parse_vtt")

NonEmptyBlocks(content) ==
  SelectSeq(vtt_blocks(content), LAMBDA b : SplitLines(Strip(b)) # <<>>)

\* C5: a caption block whose start text the Timestamp Codec cannot parse
\* still gives a record, with startSeconds None: parse_vtt does not fail and
\* returns one record per non-empty block.
C5_UnparsableCaptionStartIsTolerated ==
  /\ ~RaisedIn("parse_vtt")
  /\ VttParsed =>
       /\ Len(transcript) = Len(NonEmptyBlocks(vtt_input))
       /\ \A i \in 1..Len(transcript) :
            (transcript[i].timestamp # None
               /\ ~timestamp_to_seconds(transcript[i].timestamp[1]).ok)
              => transcript[i].time = None

(***************************************************************************)
(* The Categorizer: messages of a few words against rule tables of a few    *)
(* rows.                                                                    *)
(***************************************************************************)
MaxWords == 2
MaxRules == 3

Words == {<<"a">>, <<"b">>, <<"A", "b", "s">>}
Messages == {Join(<<SP>>, ws) : ws \in SeqsUpTo(Words, MaxWords)}

RuleRows ==
  {Row(<<"a">>, CatX), Row(<<"a">>, CatY), Row(<<"A", "b", "s", SP, "a">>, CatX),
   Row(<<"b">>, UNCATEGORIZED)}

RuleTables == {Some(RuleTable(rs)) : rs \in SeqsUpTo(RuleRows, MaxRules)}

CatChats == {ChatDoc(<<Line(T5, <<"B", ":">>, m)>>) : m \in Messages}

InitCat == InitRun({VttDoc(TRUE, <<BlkPlain>>)}, CatChats, RuleTables, {None},
                   {"zoom_parser"})

SpecCat == InitCat /\ [][NextZoomParser]_vars

\* the rules of the run, once load_ngrams has returned
Rules == ngrams_list[1]

\* the rules whose matcher finds its phrase in the normalized message
MatchingRules(message) ==
  {i \in 1..Len(Rules) : pattern_search(Rules[i].pattern, stem_text(message))}

HitCount(message, cat) ==
  Cardinality({i \in MatchingRules(message) : Rules[i].category = cat})

\* the first matching rule of every category of the highest hit count
WinningRules(message) ==
  {i \in MatchingRules(message) :
     /\ \A j \in MatchingRules(message) :
          HitCount(message, Rules[j].category) <= HitCount(message, Rules[i].category)
     /\ \A j \in MatchingRules(message) : Rules[j].category = Rules[i].category => i <= j}

RECURSIVE CategoriesInOrder(_, _)
CategoriesInOrder(is, from) ==
  IF from > Len(Rules) THEN <<>>
  ELSE (IF from \in is THEN <<Rules[from].category>> ELSE <<>>)
       \o CategoriesInOrder(is, from + 1)

Winners(message) == Join(<<",", SP>>, CategoriesInOrder(WinningRules(message), 1))

\* the rows write_csv has prepared carry the category of their message
Categorized == ngrams_list # None /\ rows # <<>>

\* C6 as claimed: the category is "uncategorized" exactly when no rule
\* matches the normalized message, and otherwise the categories of the
\* highest hit count, each once, joined by ", " in the order in which the
\* rules first met them.
C6_UncategorizedExactlyWhenNoMatch ==
  Categorized =>
    \A r \in 1..Len(rows) :
       /\ (rows[r].assigned_category = UNCATEGORIZED) <=> (MatchingRules(rows[r].message) = {})
       /\ MatchingRules(rows[r].message) # {}
            => rows[r].assigned_category = Winners(rows[r].message)

\* C6, amended: the category is "uncategorized" whenever no rule matches
\* the normalized message, and otherwise the categories of the highest hit
\* count, each once, joined by ", " in the order in which the rules first
\* met them (a winning category may itself be named "uncategorized").
C6_CategoryIsSentinelOrWinners ==
  Categorized =>
    \A r \in 1..Len(rows) :
       /\ MatchingRules(rows[r].message) = {} => rows[r].assigned_category = UNCATEGORIZED
       /\ MatchingRules(rows[r].message) # {}
            => rows[r].assigned_category = Winners(rows[r].message)

\* two categories tie and are reported in rule order, y before x, and in
\* the same run no rule matches the other message
C6_Witness ==
  /\ Categorized
  /\ \E r \in 1..Len(rows) : rows[r].assigned_category = <<"y", ",", SP, "x">>
  /\ \E r \in 1..Len(rows) :
       MatchingRules(rows[r].message) = {} /\ rows[r].assigned_category = UNCATEGORIZED

\* the counts of categorize_message for the message of an entry
CountsOf(entry) == count_matches(stem_text(message_of(entry)), Rules, <<>>)

\* C7: the hit count of a category is the number of rules of that category
\* whose matcher matches the normalized message, however often the phrase
\* occurs in it; a category that no rule hit has no count.
C7_OneHitPerMatchingRule ==
  (Merged /\ ngrams_list # None) =>
    \A e \in 1..Len(combined) :
       LET counts == CountsOf(combined[e])
           message == message_of(combined[e])
       IN /\ \A i \in 1..Len(counts) :
               /\ counts[i][2] = HitCount(message, counts[i][1])
               /\ counts[i][2] >= 1
               /\ \A j \in 1..Len(counts) : counts[j][1] = counts[i][1] => i = j
          /\ \A i \in MatchingRules(message) :
               \E j \in 1..Len(counts) : counts[j][1] = Rules[i].category

\* the phrase "a" occurs twice in the message "a a" and its rule counts once
C7_Witness ==
  /\ Merged
  /\ ngrams_list # None
  /\ \E e \in 1..Len(combined) :
       /\ stem_text(message_of(combined[e])) = <<"a", SP, "a">>
       /\ \E i \in 1..Len(Rules) : Rules[i].pattern = <<"a">>
       /\ \E i \in 1..Len(CountsOf(combined[e])) :
            CountsOf(combined[e])[i] = <<Rules[1].category, 1>>
       /\ Rules[1].pattern = <<"a">>

(***************************************************************************)
(* The whole run: the output table and the embedding service.               *)
(***************************************************************************)
Header == Range(output[1].header)

\* C8: the header has assigned_category exactly when a rule set was
\* supplied and lesson_relevancy exactly when a reference document was
\* supplied, and every row written has a value in exactly the columns of
\* the header.
C8_ColumnsAreAllOrNothing ==
  output # None =>
    /\ ("assigned_category" \in Header) <=> (ngrams_input # None)
    /\ ("lesson_relevancy" \in Header) <=> (lesson_plan_input # None)
    /\ \A r \in 1..Len(output[1].rows) :
         /\ DOMAIN output[1].rows[r] = Header
         /\ \A f \in Header : output[1].rows[r][f] # None

\* a finished run with an empty rule table and a reference document wrote
\* two rows with both columns
C8_Witness ==
  /\ pc = "done"
  /\ ngrams_list = Some(<<>>)
  /\ Len(output[1].rows) >= 2
  /\ {"assigned_category", "lesson_relevancy"} \subseteq Header
  /\ output[1].rows[1].assigned_category = Some(UNCATEGORIZED)

\* C9: a run writes the complete table or nothing: when it fails, no header
\* and no row has been written; when it ends, the header and one row for
\* every merged utterance have been.
C9_NoPartialOutput ==
  /\ pc = "failed" => output = None
  /\ pc = "done" => (output # None /\ Len(output[1].rows) = Len(combined))

CallsOf(what, k) ==
  {i \in 1..Len(calls) : calls[i].fn = "encode" /\ calls[i].of = what /\ calls[i].entry = k}

SimilaritiesOf(k) ==
  {i \in 1..Len(calls) : calls[i].fn = "cos_sim" /\ calls[i].entry = k}

\* C10: with a reference document, it is embedded once, before any
\* utterance is, and in a finished run every merged utterance has been
\* embedded and compared once; without one, the embedding service is never
\* called.
C10_ReferenceEmbeddedOnce ==
  /\ lesson_plan_input = None => calls = <<>>
  /\ Cardinality(CallsOf("lesson", 0)) <= 1
  /\ \A i \in 1..Len(calls) : calls[i].of = "message" => calls[1].of = "lesson"
  /\ \A k \in 1..Len(combined) :
       /\ Cardinality(CallsOf("message", k)) <= 1
       /\ Cardinality(SimilaritiesOf(k)) <= Cardinality(CallsOf("message", k))
  /\ (pc = "done" /\ lesson_plan_input # None) =>
       /\ Cardinality(CallsOf("lesson", 0)) = 1
       /\ \A k \in 1..Len(combined) :
            /\ Cardinality(CallsOf("message", k)) = 1
            /\ Cardinality(SimilaritiesOf(k)) = 1
       /\ Len(calls) = 1 + 2 * Len(combined)

\* a finished run with a reference document scored three utterances
C10_Witness ==
  /\ pc = "done"
  /\ lesson_plan_input # None
  /\ Len(combined) >= 3
  /\ Len(calls) = 1 + 2 * Len(combined)

(***************************************************************************)
(* The Timestamp Codec: chat logs whose lines carry timestamps of three     *)
(* components, with and without a fraction, and texts of fewer or more      *)
(* components.  A component is a pair of its text and the number it writes. *)
(***************************************************************************)
MaxStampLines == 1

HourParts == {<<<<"0">>, 0>>, <<<<"0", "1">>, 1>>}
MinuteParts == {<<<<"0", "2">>, 2>>, <<<<"5", "9">>, 59>>}
SecondParts == {<<<<"0", "3">>, 3>>, <<<<"7">>, 7>>}
\* no fraction, ".500", ".5" and ".045"
FractionParts ==
  {<<<<>>, 0>>, <<<<".", "5", "0", "0">>, 500>>, <<<<".", "5">>, 5>>,
   <<<<".", "0", "4", "5">>, 45>>}

StampText(h, m, s, f) == h[1] \o <<":">> \o m[1] \o <<":">> \o s[1] \o f[1]

StampMillis(h, m, s, f) == 3600000 * h[2] + 60000 * m[2] + 1000 * s[2] + f[2]

StampTexts ==
  {StampText(h, m, s, f) :
     h \in HourParts, m \in MinuteParts, s \in SecondParts, f \in FractionParts}

\* texts of one, two and four components
WrongPartTexts ==
  {<<"1", "2">>, <<"0", "2", ":", "0", "3">>, <<"0", "2", ":", "0", "3", ".", "5", "0", "0">>,
   <<"0", ":", "0", ":", "0", ":", "2">>}

StampChats ==
  {ChatDoc(ls) :
     ls \in SeqsUpTo({Line(t, <<"B", ":">>, <<"a">>) : t \in StampTexts \cup WrongPartTexts},
                     MaxStampLines)}

InitStamp == InitRun({VttDoc(TRUE, <<BlkPlain>>)}, StampChats, {None}, {None},
                     {"zoom_parser"})

SpecStamp == InitStamp /\ [][NextZoomParser]_vars

\* the number of colons of a text
Colons(t) == Cardinality({i \in 1..Len(t) : t[i] = ":"})

\* parse_chat_log is at a line, or has failed at it
AtChatLine == chat_lines # <<>> /\ (pc = "chat_loop" \/ RaisedIn("parse_chat_log"))

\* C11: a timestamp text H:M:S or H:M:S.mmm of non-negative integers gives
\* 3600000*H + 60000*M + 1000*S + mmm milliseconds (mmm = 0 without a
\* fraction), and the codec does not fail on it.
C11_TimestampIsManualArithmetic ==
  /\ \A i \in 1..Len(chat_entries) :
       \A h \in HourParts, m \in MinuteParts, s \in SecondParts, f \in FractionParts :
          chat_entries[i].timestamp = Some(StampText(h, m, s, f))
            => chat_entries[i].time = Some(StampMillis(h, m, s, f))
  /\ (AtChatLine /\ TimestampField(Head(chat_lines)) \in StampTexts)
       => ~RaisedIn("parse_chat_log")

\* "01:02:03.500" has been converted to 3723.5 seconds
C11_Witness ==
  /\ ChatParsed
  /\ \E i \in 1..Len(chat_entries) :
       /\ chat_entries[i].timestamp
            = Some(<<"0", "1", ":", "0", "2", ":", "0", "3", ".", "5", "0", "0">>)
       /\ chat_entries[i].time = Some(3723500)

\* C12: a timestamp text that does not split at its colons into exactly
\* three components makes the codec fail with ValueError and gives no value:
\* no record carries such a timestamp, and a run that has failed at such a
\* line has failed with ValueError and has no record of the line.
C12_WrongComponentCountFails ==
  /\ \A i \in 1..Len(chat_entries) : Colons(chat_entries[i].timestamp[1]) = 2
  /\ ChatParsed =>
       \A i \in 1..Len(SplitLines(chat_input)) :
          Colons(TimestampField(SplitLines(chat_input)[i])) = 2
  /\ (RaisedIn("parse_chat_log") /\ Colons(TimestampField(Head(chat_lines))) # 2)
       => /\ error = Some([exc |-> "ValueError", raised_in |-> "parse_chat_log"])
          /\ Len(chat_entries) = Len(SplitLines(chat_input)) - Len(chat_lines)
          /\ ~timestamp_to_seconds(TimestampField(Head(chat_lines))).ok

\* the run has failed at a line whose timestamp has four components
C12_Witness ==
  /\ RaisedIn("parse_chat_log")
  /\ error[1].exc = "ValueError"
  /\ TimestampField(Head(chat_lines)) = <<"0", ":", "0", ":", "0", ":", "2">>
  /\ chat_entries = <<>>

(***************************************************************************)
(* The Chat Parser, field by field: chat logs of lines whose timestamps are *)
(* all well formed, with and without the colon after the speaker, with a    *)
(* fourth field, with an empty message, with too few fields, and blank.     *)
(***************************************************************************)
MaxFieldLines == 2

T10 == <<"0", "0", ":", "0", "0", ":", "1", "0">>

\* "00:00:10<TAB>Bs:<TAB>ab a", the line of the docstring
LineT10 == Line(T10, <<"B", "s", ":">>, <<"a", "b", SP, "a">>)
\* two colons after the speaker
LineTwoColons == Line(T3, <<"B", ":", ":">>, <<"a">>)
\* a fourth field
LineFour == Line(T6, <<"S", ":">>, <<"a", "b">>) \o <<TAB, "b">>
\* a timestamp and a speaker followed by an empty message
LineNoMessage == Line(T2, <<"B", ":">>, <<>>)

FieldLogs ==
  {ChatDoc(ls) :
     ls \in SeqsUpTo({LineT10, LineA5, LineTwoColons, LineFour, LineNoMessage, LineShort,
                      LineBlank}, MaxFieldLines)}

InitFields == InitRun({VttDoc(TRUE, <<BlkPlain>>)}, FieldLogs, {None}, {None},
                      {"zoom_parser"})

SpecFields == InitFields /\ [][NextZoomParser]_vars

\* the tab-separated fields of a line of the chat log
TabFields(raw) == Split(raw, <<TAB>>)

\* the lines that are not blank and have three tab-separated fields or more
RecordLines(content) ==
  SelectSeq(SplitLines(content),
            LAMBDA raw : Strip(raw) # <<>> /\ Len(TabFields(raw)) >= 3)

\* the record of such a line: its first field, its second field without one
\* colon at the end, its third field (each without surrounding white space)
RecordOfLine(raw) ==
  LET second == Strip(TabFields(raw)[2])
  IN [type |-> "chat",
      timestamp |-> Some(Strip(TabFields(raw)[1])),
      time |-> Some(timestamp_to_seconds(Strip(TabFields(raw)[1])).val),
      speaker |-> IF second # <<>> /\ second[Len(second)] = ":"
                  THEN Strip(Take(second, Len(second) - 1)) ELSE second,
      message |-> Strip(TabFields(raw)[3])]

\* C13: parse_chat_log does not fail at a blank line or at a line of fewer
\* than three tab-separated fields, and returns one record for every other
\* line, in the order of the lines: the first field is the timestamp, the
\* second without one colon at its end the speaker, the third the message,
\* and the record has neither an end timestamp nor a block index.
C13_OneRecordPerThreeFieldLine ==
  /\ RaisedIn("parse_chat_log") =>
       /\ Strip(Head(chat_lines)) # <<>>
       /\ Len(TabFields(Head(chat_lines))) >= 3
  /\ ChatParsed =>
       /\ Len(chat_entries) = Len(RecordLines(chat_input))
       /\ \A i \in 1..Len(chat_entries) :
            /\ i <= Len(RecordLines(chat_input))
                 => chat_entries[i] = RecordOfLine(RecordLines(chat_input)[i])
            /\ {"end", "block_index"} \cap DOMAIN chat_entries[i] = {}

(***************************************************************************)
(* The Caption Parser, block by block.                                      *)
(***************************************************************************)
\* the lines of a block
BlockLines(b) == SplitLines(Strip(b))

\* the first line of the block is purely numeric
HasIndexLine(b) ==
  LET first == Strip(BlockLines(b)[1])
  IN first # <<>> /\ \A k \in 1..Len(first) : first[k] \in Digits

\* the range line of a block: its second line when the first is an index
\* line (empty when there is no second line), its first line otherwise
RangeLine(b) ==
  IF ~HasIndexLine(b) THEN Strip(BlockLines(b)[1])
  ELSE IF Len(BlockLines(b)) >= 2 THEN Strip(BlockLines(b)[2])
  ELSE <<>>

\* the start and the end written on a range line "<start> --> <end>"
RangeOf(line) ==
  LET parts == Split(line, ARROW)
  IN IF Len(parts) = 2 THEN <<Some(Strip(parts[1])), Some(Strip(parts[2]))>>
     ELSE <<None, None>>

\* C14: parse_vtt returns one caption record for every non-empty block, in
\* the order of the document; the blockIndex of a record is the first line
\* of its block when that line is purely numeric, and its start and end are
\* then read from the second line; otherwise the blockIndex is empty and
\* the start and end are read from the first line.
C14_OneCaptionPerBlock ==
  VttParsed =>
    LET bs == NonEmptyBlocks(vtt_input)
    IN /\ Len(transcript) = Len(bs)
       /\ \A i \in 1..Len(bs) :
            i <= Len(transcript) =>
              /\ transcript[i].type = "transcript"
              /\ transcript[i].block_index
                   = (IF HasIndexLine(bs[i]) THEN Strip(BlockLines(bs[i])[1]) ELSE <<>>)
              /\ <<transcript[i].timestamp, transcript[i].end>> = RangeOf(RangeLine(bs[i]))

\* a document of a block with the index line "1" and a block without index
\* line has given the blockIndex "1" and then the empty blockIndex
C14_Witness ==
  /\ VttParsed
  /\ Len(NonEmptyBlocks(vtt_input)) = 2
  /\ HasIndexLine(NonEmptyBlocks(vtt_input)[1])
  /\ ~HasIndexLine(NonEmptyBlocks(vtt_input)[2])
  /\ Len(transcript) = 2
  /\ transcript[1].block_index = <<"1">>
  /\ transcript[1].timestamp = Some(T5)
  /\ transcript[2].block_index = <<>>
  /\ transcript[2].timestamp = Some(T2)

(***************************************************************************)
(* The Text Normalizer: messages of a few words, some of which the stemmer  *)
(* shortens.                                                                *)
(***************************************************************************)
MaxStemWords == 2

StemWords ==
  {<<"a", "g", "r", "e", "e">>, <<"a", "s", "s", "e", "s">>, <<"b", "a", "r", "e">>,
   <<"A", "b", "s">>}

StemChats ==
  {ChatDoc(<<Line(T5, <<"B", ":">>, Join(<<SP>>, ws))>>) :
     ws \in SeqsUpTo(StemWords, MaxStemWords)}

InitStem == InitRun({VttDoc(TRUE, <<BlkPlain>>)}, StemChats, {None}, {None},
                    {"zoom_parser"})

SpecStem == InitStem /\ [][NextZoomParser]_vars

\* C15: the normalized message that write_csv has computed for an utterance
\* is its own normal form: stem_text(stem_text(t)) = stem_text(t).
C15_StemTextIsIdempotent ==
  \A r \in 1..Len(rows) : stem_text(rows[r].stemmed_message) = rows[r].stemmed_message

(***************************************************************************)
(* Annotation of one utterance and the state it shares with the others.     *)
(***************************************************************************)
\* the category of a text under the rules of the run, from the text and
\* the rules alone
CategoryOfText(message) ==
  IF MatchingRules(message) = {} THEN UNCATEGORIZED ELSE Winners(message)

\* the rows prepared so far are the annotations of the first utterances of
\* the merged timeline, each computed from its own text and the rules
AnnotatedByOwnText ==
  (pc \in {"csv_loop", "done"} /\ ngrams_list # None) =>
    /\ Len(rows) <= Len(combined)
    /\ \A r \in 1..Len(rows) :
         /\ rows[r].message = message_of(combined[r])
         /\ rows[r].stemmed_message = stem_text(message_of(combined[r]))
         /\ rows[r].assigned_category = CategoryOfText(message_of(combined[r]))

\* a step of write_csv changes neither the rule list nor the merged
\* timeline nor a row prepared before
RulesAndTimelineKept ==
  pc \in {"write_csv", "csv_loop"} =>
    /\ ngrams_list' = ngrams_list
    /\ combined' = combined
    /\ Len(rows) > 0 => (Len(rows') >= Len(rows) /\ Take(rows', Len(rows)) = rows)

\* C16: the category and the normalized message of an utterance depend on
\* its own text and the rule set only, whatever was annotated before it,
\* and categorize_message and write_csv leave the rule list, the rules and
\* the records of the merged timeline as they are.
C16_AnnotationIsIndependent == []AnnotatedByOwnText /\ [][RulesAndTimelineKept]_vars

\* the caption "bs a" was categorized x by the rule "a", and the chat
\* message annotated after it, which no rule matches, is uncategorized
C16_Witness ==
  /\ pc = "done"
  /\ ngrams_list = Some(load_ngrams(ngrams_input[1]))
  /\ Len(rows) = 2
  /\ rows[1].assigned_category = CatX
  /\ MatchingRules(rows[2].message) = {}
  /\ rows[2].assigned_category = UNCATEGORIZED
  /\ combined = transcript \o chat_entries

(***************************************************************************)
(* The matcher of a rule: messages of up to three words against one rule,   *)
(* whose phrase has one word, two words, or no word character at all.       *)
(***************************************************************************)
MaxMatchWords == 3
MaxMatchRules == 1

MatchWords == {<<"a">>, <<"A", "b", "s">>}
MatchMessages == {Join(<<SP>>, ws) : ws \in SeqsUpTo(MatchWords, MaxMatchWords)}

\* the phrases "a", "a a", "Abs a", the empty phrase and the phrase "!"
MatchRows ==
  {Row(<<"a">>, CatX), Row(<<"a", SP, "a">>, CatY), Row(<<"A", "b", "s", SP, "a">>, CatX),
   Row(<<>>, CatY), Row(<<"!">>, CatX)}

MatchTables == {Some(RuleTable(rs)) : rs \in SeqsUpTo(MatchRows, MaxMatchRules)}

\* a caption of a range line alone: its text is empty
BlkNoText == Range2(T2, T3)

MatchVtts == {VttDoc(TRUE, <<BlkPlain>>), VttDoc(TRUE, <<BlkNoText>>)}

MatchChats == {ChatDoc(<<Line(T5, <<"B", ":">>, m)>>) : m \in MatchMessages}

InitMatch == InitRun(MatchVtts, MatchChats, MatchTables, {None}, {"zoom_parser"})

SpecMatch == InitMatch /\ [][NextZoomParser]_vars

\* the tokens of a normalized text
Tokens(t) == FindWords(t)

\* the tokens p are a contiguous run of the tokens m
TokenRun(p, m) == \E k \in 0..(Len(m) - Len(p)) : SubSeq(m, k + 1, k + Len(p)) = p

\* the rules have been loaded and the timeline merged
ReadyToMatch == ngrams_list # None /\ pc \in {"lesson", "write_csv", "csv_loop", "done"}

\* C17: the matcher of a rule whose normalized phrase has a token matches a
\* message exactly when the tokens of the phrase are a contiguous run of
\* the tokens of the normalized message; a message that only such rules
\* could match is categorized exactly when one of them does.
C17_MatchIsWholeTokenRun ==
  ReadyToMatch =>
    /\ \A e \in 1..Len(combined) : \A i \in 1..Len(Rules) :
         Tokens(Rules[i].stemmed_phrase) # <<>> =>
           ((rule_hits(Rules[i], stem_text(message_of(combined[e]))) = 1)
              <=> TokenRun(Tokens(Rules[i].stemmed_phrase),
                           Tokens(stem_text(message_of(combined[e])))))
    /\ \A r \in 1..Len(rows) :
         (\A i \in 1..Len(Rules) : Tokens(Rules[i].stemmed_phrase) # <<>>) =>
           ((rows[r].assigned_category # UNCATEGORIZED)
              <=> \E i \in 1..Len(Rules) :
                     TokenRun(Tokens(Rules[i].stemmed_phrase),
                              Tokens(rows[r].stemmed_message)))

\* the rule "a a" has not matched the message "a Abs a", in which "ab"
\* stands between the two words of the phrase
C17_Witness ==
  /\ pc = "done"
  /\ ngrams_list # None
  /\ Len(Rules) = 1
  /\ Rules[1].stemmed_phrase = <<"a", SP, "a">>
  /\ \E r \in 1..Len(rows) :
       /\ rows[r].stemmed_message = <<"a", SP, "a", "b", SP, "a">>
       /\ rows[r].assigned_category = UNCATEGORIZED

\* C20: a rule whose phrase normalizes to no token matches no message: it
\* adds no hit for any utterance, and a message that only such rules could
\* match is uncategorized.
C20_EmptyPhraseNeverMatches ==
  ReadyToMatch =>
    /\ \A e \in 1..Len(combined) : \A i \in 1..Len(Rules) :
         Tokens(Rules[i].stemmed_phrase) = <<>>
           => rule_hits(Rules[i], stem_text(message_of(combined[e]))) = 0
    /\ \A r \in 1..Len(rows) :
         (\A i \in 1..Len(Rules) : Tokens(Rules[i].stemmed_phrase) = <<>>)
           => rows[r].assigned_category = UNCATEGORIZED

(***************************************************************************)
(* The Rule Set Loader: rule tables of rows of four columns, of three, of   *)
(* five, and blank lines.                                                   *)
(***************************************************************************)
MaxTableRows == 3

\* "1,a,u,x", "2,b,b,y", "1,a,u" (three columns), "3,Abs,u,y,s" (five
\* columns) and a blank line
TableRows ==
  {Row(<<"a">>, CatX),
   <<"2", ",", "b", ",", "b", ",", "y">>,
   <<"1", ",", "a", ",", "u">>,
   <<"3", ",", "A", "b", "s", ",", "u", ",", "y", ",", "s">>,
   <<>>}

LoaderTables == {Some(RuleTable(rs)) : rs \in SeqsUpTo(TableRows, MaxTableRows)}

InitRules == InitRun({VttDoc(TRUE, <<BlkPlain>>)}, {ChatDoc(<<LineB2>>)}, LoaderTables,
                     {None}, {"zoom_parser"})

SpecRules == InitRules /\ [][NextZoomParser]_vars

\* the columns of a line of the rule table
Columns(line) == IF line = <<>> THEN <<>> ELSE Split(line, <<",">>)

\* the lines of the rule table that have four columns or more
FullRows(content) == SelectSeq(SplitLines(content), LAMBDA l : Len(Columns(l)) >= 4)

\* C18: load_ngrams does not fail; it returns one rule for every row of
\* four columns or more and none for a shorter row, in the order of the
\* table, with the phrase, the type and the category of the rule taken
\* from columns 2, 3 and 4; this list is the one the Categorizer iterates.
C18_OneRulePerFullRow ==
  /\ ~RaisedIn("load_ngrams")
  /\ (ngrams_input # None /\ pc \in {"lesson", "write_csv", "csv_loop", "done"}) =>
       LET full == FullRows(ngrams_input[1])
       IN /\ ngrams_list # None
          /\ Len(Rules) = Len(full)
          /\ \A i \in 1..Len(full) :
               i <= Len(Rules) =>
                 /\ Rules[i].phrase = Columns(full[i])[2]
                 /\ Rules[i].ngram_type = Columns(full[i])[3]
                 /\ Rules[i].category = Columns(full[i])[4]
                 /\ Rules[i].pattern = stem_text(Columns(full[i])[2])
          /\ \A r \in 1..Len(rows) :
               rows[r].assigned_category = CategoryOfText(rows[r].message)

\* a table of a row of three columns between a row of five and a row of
\* four gave two rules, "Abs" of category y and then "a" of category x
C18_Witness ==
  /\ pc = "done"
  /\ Len(SplitLines(ngrams_input[1])) = 3
  /\ Len(Columns(SplitLines(ngrams_input[1])[1])) = 5
  /\ Len(Columns(SplitLines(ngrams_input[1])[2])) = 3
  /\ Len(Rules) = 2
  /\ Rules[1].phrase = <<"A", "b", "s">> /\ Rules[1].category = CatY
  /\ Rules[2].phrase = <<"a">> /\ Rules[2].category = CatX
  /\ \E r \in 1..Len(rows) : rows[r].assigned_category = CatX

(***************************************************************************)
(* The header of the caption document: documents without a header line,     *)
(* with a header line followed by a blank line, and with a header line      *)
(* followed by the first cue at once.                                       *)
(***************************************************************************)
MaxHeaderBlocks == 2

HeaderDoc(header, bs) ==
  (CASE header = "none" -> <<>>
     [] header = "separate" -> WEBVTT \o <<NL, NL>>
     [] header = "attached" -> WEBVTT \o <<NL>>)
  \o Join(<<NL, NL>>, bs) \o <<NL>>

HeaderDocs ==
  {HeaderDoc(h, bs) :
     h \in {"none", "separate", "attached"},
     bs \in SeqsUpTo({BlkIndexed, BlkPlain}, MaxHeaderBlocks)}

InitHeader == InitRun(HeaderDocs, {ChatDoc(<<LineB2>>)}, {None}, {None}, {"zoom_parser"})

SpecHeader == InitHeader /\ [][NextZoomParser]_vars

\* the range lines of the document, in order: the lines with an arrow
CueLines(content) ==
  SelectSeq(SplitLines(content), LAMBDA l : Contains(l, ARROW))

\* C19: every cue of the caption document gives a record, the first cue
\* after the header line too: parse_vtt returns one record per range line,
\* in order, with the start written on that line.
C19_HeaderStrippingKeepsEveryCue ==
  VttParsed =>
    /\ Len(transcript) = Len(CueLines(vtt_input))
    /\ \A i \in 1..Len(transcript) :
         i <= Len(CueLines(vtt_input))
           => transcript[i].timestamp = Some(Strip(Split(CueLines(vtt_input)[i], ARROW)[1]))

====
